---- MODULE Spec2Model ----
(***************************************************************************)
(* httpland/cors-middleware: the `cors` and `preflight` middleware         *)
(* (src/middleware.ts) with their helpers (src/utils.ts, src/deps.ts).     *)
(*                                                                         *)
(* Representation.  A JavaScript string is a sequence of atoms.  An atom   *)
(* is a run of characters that the code never looks inside (a field name,  *)
(* a scheme, a host), or one of the two characters the code handles on     *)
(* their own: "," (Char.Comma) and " " (Char.Sp).  "x-test, origin" is     *)
(* <<"x-test", ",", " ", "origin">>, the empty string is <<>>.             *)
(* A JavaScript value that may be undefined / null / boolean / number /    *)
(* string is a tagged record (Undefined, Null, Bool, Num, Str).            *)
(* A Headers object is a function from the lower-cased names it holds to   *)
(* their string values.                                                    *)
(***************************************************************************)
EXTENDS Integers, Sequences, FiniteSets, TLC

VARIABLES mw, allowOrigins, lastIndex, call, handled, calc, other, inner

vars == <<mw, allowOrigins, lastIndex, call, handled, calc, other, inner>>

(***************************************************************************)
(* Bounds                                                                  *)
(***************************************************************************)
\* number of requests one middleware instance handles in a behaviour
MaxRequests == 2
\* number of options given to preflight() at once
MaxOptions == 2
\* applications of a helper function in a row
MaxAppends == 3
\* paths given to stringifyInstancePath
MaxPaths == 4

(***************************************************************************)
(* JavaScript values                                                       *)
(***************************************************************************)
Undefined == [t |-> "undefined"]
Null == [t |-> "null"]
Bool(b) == [t |-> "boolean", b |-> b]
\* a number: an integer n, NaN, Infinity, or the fraction n + 1/2
Num(n) == [t |-> "number", k |-> "integer", n |-> n]
NaN == [t |-> "number", k |-> "NaN", n |-> 0]
Infinity == [t |-> "number", k |-> "Infinity", n |-> 0]
Half(n) == [t |-> "number", k |-> "half", n |-> n]
Str(s) == [t |-> "string", s |-> s]

isString(v) == v.t = "string"
isNumber(v) == v.t = "number"

\* `a ?? b`
Coalesce(a, b) == IF a.t \in {"undefined", "null"} THEN b ELSE a

\* truthiness of a value used as an `if` condition
Truthy(v) ==
  CASE v.t = "string" -> v.s # <<>>
    [] v.t = "boolean" -> v.b
    [] v.t = "number" -> v.k # "NaN" /\ (v.k = "integer" => v.n # 0)
    [] OTHER -> FALSE

(***************************************************************************)
(* Strings                                                                 *)
(***************************************************************************)
Comma == <<",">>
Sp == <<" ">>
Star == <<"*">>
Separator == Comma \o Sp

\* Array.prototype.join
RECURSIVE Join(_, _)
Join(list, sep) ==
  IF list = <<>> THEN <<>>
  ELSE IF Len(list) = 1 THEN list[1]
  ELSE list[1] \o sep \o Join(Tail(list), sep)

\* Number.prototype.toString for a non-negative integer
Digit(d) ==
  CASE d = 0 -> "0" [] d = 1 -> "1" [] d = 2 -> "2" [] d = 3 -> "3"
    [] d = 4 -> "4" [] d = 5 -> "5" [] d = 6 -> "6" [] d = 7 -> "7"
    [] d = 8 -> "8" [] d = 9 -> "9"

RECURSIVE NumberToString(_)
NumberToString(n) ==
  IF n < 10 THEN <<Digit(n)>>
  ELSE NumberToString(n \div 10) \o <<Digit(n % 10)>>

\* Number.prototype.toString for a number value
NumberValueToString(v) ==
  CASE v.k = "NaN" -> <<"NaN">>
    [] v.k = "Infinity" -> <<"Infinity">>
    [] v.k = "half" -> NumberToString(v.n) \o <<".", "5">>
    [] v.k = "integer" -> IF v.n < 0 THEN <<"-">> \o NumberToString(-v.n)
                          ELSE NumberToString(v.n)

\* faulty variant: String(v) without the `?.` guard
OptToString_NoGuard(v) ==
  CASE v.t = "undefined" -> Str(<<"undefined">>)
    [] v.t = "boolean" -> Str(IF v.b THEN <<"true">> ELSE <<"false">>)
    [] v.t = "number" -> Str(NumberValueToString(v))
    [] v.t = "string" -> v

\* `v?.toString()` of an option value
OptToString(v) ==
  CASE v.t = "undefined" -> Undefined
    [] v.t = "boolean" -> Str(IF v.b THEN <<"true">> ELSE <<"false">>)
    [] v.t = "number" -> Str(NumberValueToString(v))
    [] v.t = "string" -> v

\* faulty variant: an empty list gives undefined
OptJoin_EmptyUnset(v) ==
  IF v.t = "undefined" \/ v.list = <<>> THEN Undefined ELSE Str(Join(v.list, Separator))

\* `list?.join(Char.Separator)` of an option that is a list of strings
OptJoin(v) ==
  IF v.t = "undefined" THEN Undefined ELSE Str(Join(v.list, Separator))

(***************************************************************************)
(* Header names (src/deps.ts CORSHeader, constants.ts Header)              *)
(***************************************************************************)
HeaderVary == "vary"
HeaderOrigin == "origin"
AccessControlAllowOrigin == "access-control-allow-origin"
AccessControlAllowCredentials == "access-control-allow-credentials"
AccessControlAllowMethods == "access-control-allow-methods"
AccessControlAllowHeaders == "access-control-allow-headers"
AccessControlExposeHeaders == "access-control-expose-headers"
AccessControlMaxAge == "access-control-max-age"
AccessControlRequestMethod == "access-control-request-method"
AccessControlRequestHeaders == "access-control-request-headers"

MethodOptions == "OPTIONS"
StatusOK == 200
StatusNoContent == 204

(***************************************************************************)
(* Headers                                                                 *)
(***************************************************************************)
NoHeaders == [k \in {} |-> <<>>]

Has(h, k) == k \in DOMAIN h
Get(h, k) == IF k \in DOMAIN h THEN Str(h[k]) ELSE Null
HSet(h, k, v) == [x \in DOMAIN h \cup {k} |-> IF x = k THEN v ELSE h[x]]

\* faulty variant: `left` itself set, no copy made
mergeHeadersLeft_InPlace(left, right) ==
  [name \in DOMAIN left \cup DOMAIN right |->
     IF name \in DOMAIN right THEN right[name] ELSE left[name]]

\* what the Headers object passed as `left` holds after mergeHeaders(left, right):
\* `left = new Headers(left)` makes the copy that is then set
mergeHeadersLeft(left, right) == left

\* faulty variant: on a name both hold, the value of left kept
mergeHeaders_KeepLeft(left, right) ==
  [k \in DOMAIN left \cup DOMAIN right |->
     IF k \in DOMAIN left THEN left[k] ELSE right[k]]

\* deps.ts mergeHeaders: copy left, then set every entry of right
mergeHeaders(left, right) ==
  [k \in DOMAIN left \cup DOMAIN right |->
     IF k \in DOMAIN right THEN right[k] ELSE left[k]]

(***************************************************************************)
(* vary@1.0.0 `append` (imported in deps.ts).  Its behaviour is pinned by  *)
(* src/middleware_test.ts: a field the header already lists is not added   *)
(* again ("x-test, origin" plus the three candidates keeps one "origin").  *)
(* A header value of "*" is not among the values considered.               *)
(***************************************************************************)
LowerAtom(a) ==
  CASE a = "Origin" -> "origin"
    [] a = "User-Agent" -> "user-agent"
    [] a = "Vary" -> "vary"
    [] a = "X-Test" -> "x-test"
    [] OTHER -> a

toLowerCase(s) == [i \in 1..Len(s) |-> LowerAtom(s[i])]

\* `new Headers(init)` for an init of name/value pairs whose names differ even
\* when lower-cased: a Headers object keeps its names lower-cased
NewHeaders(pairs) ==
  [k \in {LowerAtom(p[1]) : p \in pairs} |->
     (CHOOSE p \in pairs : LowerAtom(p[1]) = k)[2]]

RECURSIVE TrimStart(_)
TrimStart(s) == IF s # <<>> /\ Head(s) = " " THEN TrimStart(Tail(s)) ELSE s

RECURSIVE TrimEnd(_)
TrimEnd(s) ==
  IF s # <<>> /\ s[Len(s)] = " " THEN TrimEnd(SubSeq(s, 1, Len(s) - 1)) ELSE s

Trim(s) == TrimEnd(TrimStart(s))

\* the members of a comma-separated list, trimmed; no member for an empty string
RECURSIVE SplitComma(_, _)
SplitComma(s, cur) ==
  IF s = <<>> THEN (IF Trim(cur) = <<>> THEN {} ELSE {Trim(cur)})
  ELSE IF Head(s) = ","
    THEN (IF Trim(cur) = <<>> THEN {} ELSE {Trim(cur)}) \cup SplitComma(Tail(s), <<>>)
    ELSE SplitComma(Tail(s), cur \o <<Head(s)>>)

parseVary(header) == SplitComma(toLowerCase(header), <<>>)

\* faulty variant: every field appended, listed already or not
RECURSIVE appendFields_NoDedup(_, _, _)
appendFields_NoDedup(val, vals, fields) ==
  IF fields = <<>> THEN val
  ELSE appendFields_NoDedup(
         IF val # <<>> THEN val \o Separator \o Head(fields) ELSE Head(fields),
         vals,
         Tail(fields))

RECURSIVE appendFields(_, _, _)
appendFields(val, vals, fields) ==
  IF fields = <<>> THEN val
  ELSE LET fld == toLowerCase(Head(fields)) IN
       IF fld \in vals
         THEN appendFields(val, vals, Tail(fields))
         ELSE appendFields(
                IF val # <<>> THEN val \o Separator \o Head(fields) ELSE Head(fields),
                vals \cup {fld},
                Tail(fields))

\* faulty variant: the fields the header lists not looked at
append_MembersIgnored(header, fields) == appendFields(header, {}, fields)

\* append(header, field): `fields` is the list of fields (one field: a list of one)
append(header, fields) == appendFields(header, parseVary(header), fields)

(***************************************************************************)
(* _abnf.ts reToken: one or more token characters                          *)
(***************************************************************************)
NonTokenAtoms == {",", " ", "<invalid:field-name>", "://a.example", "://b.example"}

reTokenTest(input) ==
  input # <<>> /\ \A i \in 1..Len(input) : input[i] \notin NonTokenAtoms

(***************************************************************************)
(* utils.ts                                                                *)
(***************************************************************************)
isCORSRequest(request) == Has(request.headers, HeaderOrigin)

\* faulty variant: the two headers must hold a value that is not empty
isCORSPreflightRequest_NonEmpty(request) ==
  /\ isCORSRequest(request)
  /\ request.method = MethodOptions
  /\ Truthy(Get(request.headers, AccessControlRequestMethod))
  /\ Truthy(Get(request.headers, AccessControlRequestHeaders))

isCORSPreflightRequest(request) ==
  /\ isCORSRequest(request)
  /\ request.method = MethodOptions
  /\ Has(request.headers, AccessControlRequestMethod)
  /\ Has(request.headers, AccessControlRequestHeaders)

\* faulty variant: a RangeError thrown
Error_Typed(msg) == [name |-> "RangeError", message |-> msg]

\* `Error(msg)`, the value both assertions throw
Error(msg) == [name |-> "Error", message |-> msg]

\* nothing thrown
NoError == [name |-> "", message |-> <<>>]

\* assertTokenFormat: TRUE when it returns, FALSE when it throws
assertTokenFormat(input) == reTokenTest(input)

\* assertNonNegativeInteger: TRUE when it returns, FALSE when it throws
assertNonNegativeInteger(input) == input.k = "integer" /\ input.n >= 0

\* faulty variant: the first path is prefixed like the others
RECURSIVE stringifyFrom_NoFirst(_, _, _)
stringifyFrom_NoFirst(paths, i, acc) ==
  IF i > Len(paths) THEN acc
  ELSE LET cur == paths[i]
           text == IF isString(cur) THEN cur.s ELSE NumberValueToString(cur)
       IN  stringifyFrom_NoFirst(paths, i + 1,
             acc \o (IF isString(cur) THEN <<".">> \o text
                     ELSE <<"[">> \o text \o <<"]">>))

\* stringifyInstancePath(...paths): the reduce from path i on, acc so far;
\* a path is a string or a number
RECURSIVE stringifyFrom(_, _, _)
stringifyFrom(paths, i, acc) ==
  IF i > Len(paths) THEN acc
  ELSE LET cur == paths[i]
           text == IF isString(cur) THEN cur.s ELSE NumberValueToString(cur)
       IN  stringifyFrom(paths, i + 1,
             IF i = 1 THEN text
             ELSE acc \o (IF isString(cur) THEN <<".">> \o text
                          ELSE <<"[">> \o text \o <<"]">>))

stringifyInstancePath(paths) == stringifyFrom(paths, 1, <<>>)

IsPrefix(p, s) == Len(p) <= Len(s) /\ SubSeq(s, 1, Len(p)) = p

\* RegExp.prototype.test for the pattern /^source/ with or without the g flag.
\* li is the lastIndex of the RegExp object (counted in atoms).  A global
\* pattern starts at lastIndex and stores the end of the match, or 0 on failure;
\* "^" matches at index 0 only.
RegExpTest(pattern, li, input) ==
  LET start == IF pattern.global THEN li ELSE 0
      found == start = 0 /\ IsPrefix(pattern.source, input)
  IN  [result |-> found,
       lastIndex |-> IF pattern.global
                       THEN (IF found THEN Len(pattern.source) ELSE 0)
                       ELSE li]

\* match(input, pattern), with the lastIndex of the pattern before and after
match(input, pattern, li) ==
  IF ~pattern.re
    THEN [result |-> input = pattern.source, lastIndex |-> li]
    ELSE RegExpTest(pattern, li, input)

NoInit == [headers |-> Undefined, status |-> Undefined, statusText |-> Undefined]
InitHeaders(h) == [NoInit EXCEPT !.headers = [t |-> "headers", h |-> h]]

\* `new Response(body, { headers, status, statusText })` for the response asked
\* for: the RangeError for a status outside 200..599, the TypeError for a body
\* with a null body status, NoError when the response is constructed
NullBodyStatus == {101, 204, 205, 304}

ResponseError(response) ==
  IF response.obj # "new" THEN NoError
  ELSE IF response.status < 200 \/ response.status > 599
    THEN [name |-> "RangeError", message |-> <<"status">>]
  ELSE IF response.body # Null /\ response.status \in NullBodyStatus
    THEN [name |-> "TypeError", message |-> <<"body">>]
  ELSE NoError

\* faulty variant: the status of the response not carried over
fromResponse_DefaultStatus(response, init) ==
  [obj |-> "new",
   body |-> response.body,
   headers |-> IF init.headers.t = "undefined" THEN response.headers ELSE init.headers.h,
   status |-> IF init.status.t = "undefined" THEN StatusOK ELSE init.status.n,
   statusText |-> IF init.statusText.t = "undefined"
                    THEN response.statusText ELSE init.statusText.s]

\* faulty variant: the headers of init merged into those of the response
fromResponse_MergedHeaders(response, init) ==
  [obj |-> "new",
   body |-> response.body,
   headers |-> IF init.headers.t = "undefined" THEN response.headers
               ELSE mergeHeaders(response.headers, init.headers.h),
   status |-> IF init.status.t = "undefined" THEN response.status ELSE init.status.n,
   statusText |-> IF init.statusText.t = "undefined"
                    THEN response.statusText ELSE init.statusText.s]

\* fromResponse: a new Response, each field from init when given, else from response
fromResponse(response, init) ==
  [obj |-> "new",
   body |-> response.body,
   headers |-> IF init.headers.t = "undefined" THEN response.headers ELSE init.headers.h,
   status |-> IF init.status.t = "undefined" THEN response.status ELSE init.status.n,
   statusText |-> IF init.statusText.t = "undefined"
                    THEN response.statusText ELSE init.statusText.s]

(***************************************************************************)
(* middleware.ts helpers                                                   *)
(***************************************************************************)
\* createOriginMatcher: allowOrigins.some(pattern => match(origin, pattern)),
\* from entry i on; `some` stops at the first entry that matches
RECURSIVE matchOriginFrom(_, _, _, _)
matchOriginFrom(origin, entries, lis, i) ==
  IF i > Len(entries) THEN [result |-> FALSE, lastIndex |-> lis]
  ELSE LET m == match(origin, entries[i], lis[i])
           lis2 == [lis EXCEPT ![i] = m.lastIndex]
       IN  IF m.result THEN [result |-> TRUE, lastIndex |-> lis2]
           ELSE matchOriginFrom(origin, entries, lis2, i + 1)

createOriginMatcher(origin, entries, lis) == matchOriginFrom(origin, entries, lis, 1)

\* getAllowedOrigin(origin, check): value returned and the lastIndex values after
getAllowedOrigin(origin, check, entries, lis) ==
  IF check.t = "undefined" THEN [value |-> Star, lastIndex |-> lis]
  ELSE LET m == createOriginMatcher(origin, entries, lis)
       IN  [value |-> IF m.result THEN origin ELSE <<>>, lastIndex |-> m.lastIndex]

PropertyAllowHeaders == "allowHeaders"
PropertyAllowMethods == "allowMethods"
PropertyExposeHeaders == "exposeHeaders"
PropertyMaxAge == "maxAge"
ABNFFieldName == "<field-name>"
ABNFMethod == "<method>"

\* faulty variant: the message names the option without the index
createAssertTokens_NoIndex(subject, expected, input, i) ==
  IF assertTokenFormat(input) THEN NoError
  ELSE Error(stringifyInstancePath(<<Str(<<subject>>)>>)
             \o <<" is invalid ", expected, " format. ", "\"">> \o input \o <<"\"">>)

\* createAssertTokens(subject, expected)(input, i): what the callback throws for
\* the entry `input` at index i (counted from 0), NoError when it returns
createAssertTokens(subject, expected, input, i) ==
  IF assertTokenFormat(input) THEN NoError
  ELSE Error(stringifyInstancePath(<<Str(<<subject>>), Num(i)>>)
             \o <<" is invalid ", expected, " format. ", "\"">> \o input \o <<"\"">>)

\* list.forEach(createAssertTokens(subject, expected)) from entry i on: what the
\* first callback that throws has thrown, NoError when none throws
RECURSIVE forEachFrom(_, _, _, _)
forEachFrom(subject, expected, list, i) ==
  IF i > Len(list) THEN NoError
  ELSE LET e == createAssertTokens(subject, expected, list[i], i - 1)
       IN  IF e # NoError THEN e ELSE forEachFrom(subject, expected, list, i + 1)

\* `list?.forEach(createAssertTokens(subject, expected))`
optForEach(subject, expected, option) ==
  IF option.t = "undefined" THEN NoError
  ELSE forEachFrom(subject, expected, option.list, 1)

\* createAssertTokens over a list: every entry passes assertTokenFormat
assertTokens(list) == \A i \in 1..Len(list) : assertTokenFormat(list[i])

\* faulty variant: Origin left out of the candidates
varyCandidates_NoOrigin ==
  << <<AccessControlRequestMethod>>, <<AccessControlRequestHeaders>> >>

varyCandidates ==
  << <<HeaderOrigin>>, <<AccessControlRequestMethod>>, <<AccessControlRequestHeaders>> >>

(***************************************************************************)
(* Inputs: the option values, requests and downstream responses considered *)
(***************************************************************************)
OriginA == <<"https", "://a.example">>
OriginB == <<"http", "://b.example">>

Literal(src) == [re |-> FALSE, source |-> src, global |-> FALSE]
RegExp(src, g) == [re |-> TRUE, source |-> src, global |-> g]
Array(list) == [t |-> "array", list |-> list]

\* allowOrigins: omitted, "*", ["http://b.example", /^https/], [/^https/g]
AllowOriginsValues ==
  { Undefined,
    Str(Star),
    Array(<<Literal(OriginB), RegExp(<<"https">>, FALSE)>>),
    Array(<<RegExp(<<"https">>, TRUE)>>) }

\* allowCredentials: omitted, true, "true", and false (which JavaScript lets through)
AllowCredentialsValues == {Undefined, Bool(TRUE), Str(<<"true">>), Bool(FALSE)}

ExposeHeadersValues ==
  { Undefined, Array(<<>>), Array(<< <<"x-test">>, <<"x-test2">> >>), Array(<< <<>> >>),
    Array(<< <<"x-test">>, <<"<invalid:field-name>">>, <<>> >>) }

AllowHeadersValues ==
  { Undefined, Array(<<>>), Array(<< <<"x-test">>, <<"x-test2">> >>),
    Array(<< <<"<invalid:field-name>">> >>),
    Array(<< <<"x-test">>, <<>>, <<"<invalid:field-name>">> >>) }

AllowMethodsValues ==
  { Undefined, Array(<<>>), Array(<< <<"POST">>, <<"PUT">> >>), Array(<< <<"POST">>, <<>> >>) }

MaxAgeValues == {Undefined, Num(0), Num(86400), Num(-1), Half(1), NaN, Infinity}

\* status: omitted (204), 200, and 999, which no Response can have
StatusValues == {Undefined, Num(StatusOK), Num(999)}

NoOptions ==
  [allowOrigins |-> Undefined, allowCredentials |-> Undefined,
   exposeHeaders |-> Undefined, allowHeaders |-> Undefined,
   allowMethods |-> Undefined, maxAge |-> Undefined, status |-> Undefined]

CORSHeaders ==
  { [NoOptions EXCEPT !.allowOrigins = o, !.allowCredentials = c, !.exposeHeaders = e] :
      o \in AllowOriginsValues, c \in AllowCredentialsValues, e \in ExposeHeadersValues }

\* the options that are given (not omitted)
Given(options) == {f \in DOMAIN options : options[f] # Undefined}

PreflightOptions ==
  { options \in
      { [NoOptions EXCEPT !.allowOrigins = o, !.allowCredentials = c, !.allowHeaders = h,
                          !.allowMethods = m, !.maxAge = a, !.status = s] :
          o \in AllowOriginsValues \ {Str(Star)}, c \in AllowCredentialsValues,
          h \in AllowHeadersValues, m \in AllowMethodsValues,
          a \in MaxAgeValues, s \in StatusValues } :
      Cardinality(Given(options)) <= MaxOptions }

\* a Headers object from a set of <<name, value>> pairs with distinct names
HeadersOf(pairs) ==
  [k \in {p[1] : p \in pairs} |-> (CHOOSE p \in pairs : p[1] = k)[2]]

\* the choices for one header: absent, or present with one of the values
Opt(name, values) == {{}} \cup {{<<name, v>>} : v \in values}

\* the two preflight-indicating headers: none, one, both (the second empty or not)
RequestIndicators ==
  { {},
    {<<AccessControlRequestMethod, <<"POST">>>>},
    {<<AccessControlRequestMethod, <<>>>>, <<AccessControlRequestHeaders, <<>>>>},
    {<<AccessControlRequestMethod, <<"POST">>>>,
     <<AccessControlRequestHeaders, <<"content-type">>>>} }

RequestHeaders ==
  { HeadersOf(o \cup i) :
      o \in Opt(HeaderOrigin, {<<>>, OriginA, OriginB}), i \in RequestIndicators }

Requests == [method : {"GET", MethodOptions}, headers : RequestHeaders]

\* what the downstream handler may answer: a status, status text and body with
\* the headers of the content, and the headers the middleware reads or sets
DownstreamShapes ==
  { [status |-> StatusOK, statusText |-> <<"OK">>, body |-> Str(<<"test">>),
     headers |-> {<<"x-test", <<"test">>>>}],
    [status |-> 404, statusText |-> <<"Not", " ", "Found">>, body |-> Null,
     headers |-> {}] }

DownstreamVary ==
  Opt(HeaderVary, {<<"User-Agent">>, <<"x-test">> \o Separator \o <<"origin">>})

\* the downstream handler sets none of the three headers, the two about the
\* origin, the one about exposed headers, or all three
DownstreamAccessControl ==
  { oc \cup e :
      oc \in { {}, {<<AccessControlAllowOrigin, <<>>>>,
                    <<AccessControlAllowCredentials, <<"false">>>>} },
      e \in Opt(AccessControlExposeHeaders, {<<"x-down">>}) }

Responses(accessControl) ==
  { [obj |-> "downstream", body |-> sh.body, headers |-> HeadersOf(sh.headers \cup v \cup a),
     status |-> sh.status, statusText |-> sh.statusText] :
      sh \in DownstreamShapes, v \in DownstreamVary, a \in accessControl }

\* Response.error(): status 0, no body, no header
ErrorResponse ==
  [obj |-> "downstream", body |-> Null, headers |-> NoHeaders, status |-> 0,
   statusText |-> <<>>]

\* answers to a request that went through cors / through preflight
DownstreamResponses == Responses(DownstreamAccessControl) \cup {ErrorResponse}
PassedResponses == Responses({{}}) \cup {ErrorResponse}

(***************************************************************************)
(* State                                                                   *)
(*   mw            the middleware built (kind "none" before, "failed" when *)
(*                 the factory threw), its options, its bound context and  *)
(*                 what the factory threw                                  *)
(*   allowOrigins  the allowOrigins array the origin matcher closes over   *)
(*   lastIndex     the lastIndex of each RegExp object of that array       *)
(*   call          the invocation in progress: the request, how often it   *)
(*                 called next, what next answered (downstream), what that *)
(*                 response object holds when the middleware is through    *)
(*                 with it (after), what next rejected with (rejection),   *)
(*                 what the middleware returned (result) or rejected with  *)
(*                 (error)                                                 *)
(*   handled       requests the middleware has answered                    *)
(*   calc          a helper function applied on its own: its arguments,    *)
(*                 its result and how many applications came before        *)
(*   other         a second invocation of the same middleware, in flight   *)
(*                 while `call` is, and the lastIndex values it started on *)
(*   inner         the preflight middleware that cors wraps when the two   *)
(*                 are composed, and its part of the invocation: how often *)
(*                 it called the application handler, what it returned,    *)
(*                 and the lastIndex values it started on                  *)
(***************************************************************************)
NoContext ==
  [matchOrigin |-> Undefined, allowCredentials |-> Undefined,
   exposeHeaders |-> Undefined, allowHeaders |-> Undefined,
   allowMethods |-> Undefined, maxAge |-> Undefined, status |-> Undefined]

NoRequest == [method |-> "", headers |-> NoHeaders]
NoResponse ==
  [obj |-> "none", body |-> Null, headers |-> NoHeaders, status |-> 0, statusText |-> <<>>]

IdleCall ==
  [pc |-> "idle", request |-> NoRequest, nextCalls |-> 0,
   downstream |-> NoResponse, after |-> NoResponse, rejection |-> NoError,
   result |-> NoResponse, error |-> NoError]

NoCalc == [op |-> "none", args |-> <<>>, result |-> <<>>, n |-> 0]

NoOther == [call |-> IdleCall, since |-> <<>>]

NoInner ==
  [kind |-> "none", options |-> NoOptions, context |-> NoContext,
   pc |-> "idle", appCalls |-> 0, result |-> NoResponse, since |-> <<>>]

Init ==
  /\ mw = [kind |-> "none", options |-> NoOptions, context |-> NoContext, error |-> NoError]
  /\ allowOrigins = <<>>
  /\ lastIndex = <<>>
  /\ call = IdleCall
  /\ handled = 0
  /\ calc = NoCalc
  /\ other = NoOther
  /\ inner = NoInner

\* the array behind `allowOrigins` once the default "*" is applied
OriginEntries(o) == IF o.t = "array" THEN o.list ELSE <<>>

\* `allowOrigins === Char.Star ? undefined : createOriginMatcher(allowOrigins)`
MatchOriginOf(o) ==
  IF Coalesce(o, Str(Star)) = Str(Star) THEN Undefined ELSE [t |-> "function"]

\* faulty variant: the failure of next thrown again as a new Error
onReject_Wrapped(c, err) ==
  [c EXCEPT !.pc = "threw", !.rejection = err, !.error = Error(err.message)]

\* `await next(request)` when next throws or rejects with err: no try/catch
\* around it, the invocation rejects with err
onReject(c, err) ==
  [c EXCEPT !.pc = "threw", !.rejection = err, !.error = err]

\* the invocation at its `return new Response(...)` / `return fromResponse(...)`:
\* it returns the response, or rejects with what the constructor throws
settle(c, response) ==
  IF ResponseError(response) = NoError
    THEN [c EXCEPT !.pc = "done", !.result = response]
    ELSE [c EXCEPT !.pc = "threw", !.error = ResponseError(response)]

\* the response object next returned, once its headers went through
\* mergeHeaders(response.headers, new Headers({ vary: finalVary }))
downstreamAfter(response, fields) ==
  LET varyValue == Coalesce(Get(response.headers, HeaderVary), Str(<<>>)).s
      finalVary == append(varyValue, fields)
  IN  [response EXCEPT
         !.headers = mergeHeadersLeft(response.headers, HSet(NoHeaders, HeaderVary, finalVary))]

\* what next may throw or reject with
NextErrors ==
  { [name |-> "TypeError", message |-> <<"boom">>],
    [name |-> "Error", message |-> <<"unavailable">>] }

\* the options a factory may be called with: any while no middleware is built,
\* none afterwards (one middleware is followed)
Unbuilt(options) == IF mw.kind = "none" THEN options ELSE {}

(***************************************************************************)
(* cors(options)                                                           *)
(***************************************************************************)
corsValid(options) ==
  options.exposeHeaders.t = "undefined" \/ assertTokens(options.exposeHeaders.list)

\* what cors(options) throws, NoError when it returns a middleware
corsError(options) ==
  optForEach(PropertyExposeHeaders, ABNFFieldName, options.exposeHeaders)

corsContext(options) ==
  [NoContext EXCEPT
     !.matchOrigin = MatchOriginOf(options.allowOrigins),
     !.allowCredentials = OptToString(options.allowCredentials),
     !.exposeHeaders = OptJoin(options.exposeHeaders)]

cors(options) ==
  /\ mw.kind = "none"
  /\ IF corsValid(options)
       THEN /\ mw' = [kind |-> "cors", options |-> options,
                      context |-> corsContext(options), error |-> NoError]
            /\ allowOrigins' = OriginEntries(options.allowOrigins)
            /\ lastIndex' = [i \in 1..Len(OriginEntries(options.allowOrigins)) |-> 0]
       ELSE /\ mw' = [kind |-> "failed", options |-> options, context |-> NoContext,
                      error |-> corsError(options)]
            /\ UNCHANGED <<allowOrigins, lastIndex>>
  /\ UNCHANGED <<call, handled, calc, other, inner>>

\* faulty variant: a preflight request answered without next
corsCall_PreflightAnswered(request) ==
  /\ mw.kind = "cors"
  /\ call.pc = "idle"
  /\ handled < MaxRequests
  /\ call' = IF isCORSPreflightRequest(request)
               THEN [IdleCall EXCEPT !.pc = "done", !.request = request,
                                     !.result = [NoResponse EXCEPT !.obj = "new",
                                                                   !.status = StatusNoContent]]
               ELSE [IdleCall EXCEPT !.pc = "await", !.request = request, !.nextCalls = 1]
  /\ UNCHANGED <<mw, allowOrigins, lastIndex, handled, calc, other, inner>>

\* _cors up to `await next(request)`
corsCall(request) ==
  /\ mw.kind = "cors"
  /\ call.pc = "idle"
  /\ handled < MaxRequests
  /\ call' = [IdleCall EXCEPT !.pc = "await", !.request = request, !.nextCalls = 1]
  /\ UNCHANGED <<mw, allowOrigins, lastIndex, handled, calc, other, inner>>

\* faulty variant: Access-Control-Expose-Headers without the preflight test
corsLeft_ExposeOnPreflight(context, request, entries, lis) ==
  LET origin == Get(request.headers, HeaderOrigin).s
      allowed == getAllowedOrigin(origin, context.matchOrigin, entries, lis)
      h1 == HSet(NoHeaders, AccessControlAllowOrigin, allowed.value)
      h2 == IF Truthy(context.allowCredentials)
              THEN HSet(h1, AccessControlAllowCredentials, context.allowCredentials.s)
              ELSE h1
      h3 == IF Truthy(context.exposeHeaders)
              THEN HSet(h2, AccessControlExposeHeaders, context.exposeHeaders.s)
              ELSE h2
  IN  [headers |-> h3, lastIndex |-> allowed.lastIndex]

\* the headers _cors computes before merging (`left`), and the lastIndex values after
corsLeft(context, request, entries, lis) ==
  LET origin == Get(request.headers, HeaderOrigin).s
      allowed == getAllowedOrigin(origin, context.matchOrigin, entries, lis)
      h1 == HSet(NoHeaders, AccessControlAllowOrigin, allowed.value)
      h2 == IF Truthy(context.allowCredentials)
              THEN HSet(h1, AccessControlAllowCredentials, context.allowCredentials.s)
              ELSE h1
      h3 == IF Truthy(context.exposeHeaders) /\ ~isCORSPreflightRequest(request)
              THEN HSet(h2, AccessControlExposeHeaders, context.exposeHeaders.s)
              ELSE h2
  IN  [headers |-> h3, lastIndex |-> allowed.lastIndex]

\* faulty variant: Vary set to the fields, the downstream value dropped
withVary_Replaced(response, fields) ==
  mergeHeaders(response.headers, HSet(NoHeaders, HeaderVary, Join(fields, Separator)))

\* `headers`: the response's headers with Vary amended
withVary(response, fields) ==
  LET varyValue == Coalesce(Get(response.headers, HeaderVary), Str(<<>>)).s
      finalVary == append(varyValue, fields)
  IN  mergeHeaders(response.headers, HSet(NoHeaders, HeaderVary, finalVary))

\* faulty variant: mergeHeaders(headers, left), the computed headers on top
_cors_LeftWins(context, request, response, entries, lis) ==
  LET headers == withVary(response, << <<HeaderOrigin>> >>) IN
  IF ~isCORSRequest(request)
    THEN [response |-> fromResponse(response, InitHeaders(headers)), lastIndex |-> lis]
    ELSE LET left == corsLeft(context, request, entries, lis)
             finalHeaders == mergeHeaders(headers, left.headers)
         IN  [response |-> fromResponse(response, InitHeaders(finalHeaders)),
              lastIndex |-> left.lastIndex]

\* _cors from the moment next(request) resolves with `response`
_cors(context, request, response, entries, lis) ==
  LET headers == withVary(response, << <<HeaderOrigin>> >>) IN
  IF ~isCORSRequest(request)
    THEN [response |-> fromResponse(response, InitHeaders(headers)), lastIndex |-> lis]
    ELSE LET left == corsLeft(context, request, entries, lis)
             finalHeaders == mergeHeaders(left.headers, headers)
         IN  [response |-> fromResponse(response, InitHeaders(finalHeaders)),
              lastIndex |-> left.lastIndex]

corsResume(response) ==
  /\ mw.kind = "cors"
  /\ call.pc = "await"
  /\ LET r == _cors(mw.context, call.request, response, allowOrigins, lastIndex) IN
       /\ call' = settle([call EXCEPT !.downstream = response,
                                      !.after = downstreamAfter(response, << <<HeaderOrigin>> >>)],
                          r.response)
       /\ lastIndex' = r.lastIndex
  /\ UNCHANGED <<mw, allowOrigins, handled, calc, other, inner>>

\* the caller receives the response, or the rejection
Deliver ==
  /\ call.pc \in {"done", "threw"}
  /\ call' = IdleCall
  /\ handled' = handled + 1
  /\ UNCHANGED <<mw, allowOrigins, lastIndex, calc, other, inner>>

\* next(request) throws or rejects while the middleware waits for it
nextRejects(err) ==
  /\ mw.kind \in {"cors", "preflight"}
  /\ call.pc \in {"await", "tail"}
  /\ call' = onReject(call, err)
  /\ UNCHANGED <<mw, allowOrigins, lastIndex, handled, calc, other, inner>>

NextCors ==
  \/ \E options \in Unbuilt(CORSHeaders) : cors(options)
  \/ \E request \in Requests : corsCall(request)
  \/ \E response \in DownstreamResponses : corsResume(response)
  \/ \E err \in NextErrors : nextRejects(err)
  \/ Deliver

SpecCors == Init /\ [][NextCors]_vars

(***************************************************************************)
(* preflight(options)                                                      *)
(***************************************************************************)
preflightValid(options) ==
  /\ isNumber(options.maxAge) => assertNonNegativeInteger(options.maxAge)
  /\ options.allowHeaders.t = "undefined" \/ assertTokens(options.allowHeaders.list)
  /\ options.allowMethods.t = "undefined" \/ assertTokens(options.allowMethods.list)

\* the message of the maxAge assertion
maxAgeMessage(maxAge) ==
  <<PropertyMaxAge, " must be non-negative integer. ">> \o NumberValueToString(maxAge)

\* faulty variant: the lists are checked before maxAge
preflightError_ListsFirst(options) ==
  LET h == optForEach(PropertyAllowHeaders, ABNFFieldName, options.allowHeaders)
      m == optForEach(PropertyAllowMethods, ABNFMethod, options.allowMethods)
  IN  IF h # NoError THEN h
      ELSE IF m # NoError THEN m
      ELSE IF isNumber(options.maxAge) /\ ~assertNonNegativeInteger(options.maxAge)
        THEN Error(maxAgeMessage(options.maxAge))
      ELSE NoError

\* what preflight(options) throws, NoError when it returns a middleware: the
\* maxAge assertion, then allowHeaders, then allowMethods
preflightError(options) ==
  LET h == optForEach(PropertyAllowHeaders, ABNFFieldName, options.allowHeaders)
      m == optForEach(PropertyAllowMethods, ABNFMethod, options.allowMethods)
  IN  IF isNumber(options.maxAge) /\ ~assertNonNegativeInteger(options.maxAge)
        THEN Error(maxAgeMessage(options.maxAge))
      ELSE IF h # NoError THEN h
      ELSE m

\* faulty variant: the status option is not read
preflightContext_StatusDropped(options) ==
  [NoContext EXCEPT
     !.status = Num(StatusNoContent),
     !.maxAge = OptToString(options.maxAge),
     !.allowCredentials = OptToString(options.allowCredentials),
     !.matchOrigin = MatchOriginOf(options.allowOrigins),
     !.allowHeaders = OptJoin(options.allowHeaders),
     !.allowMethods = OptJoin(options.allowMethods)]

\* faulty variant: `maxAge ? maxAge.toString() : undefined`
preflightContext_FalsyMaxAge(options) ==
  [NoContext EXCEPT
     !.status = Coalesce(options.status, Num(StatusNoContent)),
     !.maxAge = IF Truthy(options.maxAge) THEN OptToString(options.maxAge) ELSE Undefined,
     !.allowCredentials = OptToString(options.allowCredentials),
     !.matchOrigin = MatchOriginOf(options.allowOrigins),
     !.allowHeaders = OptJoin(options.allowHeaders),
     !.allowMethods = OptJoin(options.allowMethods)]

preflightContext(options) ==
  [NoContext EXCEPT
     !.status = Coalesce(options.status, Num(StatusNoContent)),
     !.maxAge = OptToString(options.maxAge),
     !.allowCredentials = OptToString(options.allowCredentials),
     !.matchOrigin = MatchOriginOf(options.allowOrigins),
     !.allowHeaders = OptJoin(options.allowHeaders),
     !.allowMethods = OptJoin(options.allowMethods)]

preflight(options) ==
  /\ mw.kind = "none"
  /\ IF preflightValid(options)
       THEN /\ mw' = [kind |-> "preflight", options |-> options,
                      context |-> preflightContext(options), error |-> NoError]
            /\ allowOrigins' = OriginEntries(options.allowOrigins)
            /\ lastIndex' = [i \in 1..Len(OriginEntries(options.allowOrigins)) |-> 0]
       ELSE /\ mw' = [kind |-> "failed", options |-> options, context |-> NoContext,
                      error |-> preflightError(options)]
            /\ UNCHANGED <<allowOrigins, lastIndex>>
  /\ UNCHANGED <<call, handled, calc, other, inner>>

\* faulty variant: `allowHeaders || ...` and `allowMethods || ...` in place of `??`
preflightResponse_OrFallback(context, request, entries, lis) ==
  LET status == Coalesce(context.status, Num(StatusNoContent)).n
      origin == Get(request.headers, HeaderOrigin).s
      allowed == getAllowedOrigin(origin, context.matchOrigin, entries, lis)
      h1 == HSet(NoHeaders, AccessControlAllowOrigin, allowed.value)
      h2 == HSet(h1, AccessControlAllowHeaders,
                 (IF Truthy(context.allowHeaders) THEN context.allowHeaders
                  ELSE Get(request.headers, AccessControlRequestHeaders)).s)
      h3 == HSet(h2, AccessControlAllowMethods,
                 (IF Truthy(context.allowMethods) THEN context.allowMethods
                  ELSE Get(request.headers, AccessControlRequestMethod)).s)
      h4 == HSet(h3, HeaderVary, Join(varyCandidates, Separator))
      h5 == IF isString(context.maxAge)
              THEN HSet(h4, AccessControlMaxAge, context.maxAge.s) ELSE h4
      h6 == IF isString(context.allowCredentials)
              THEN HSet(h5, AccessControlAllowCredentials, context.allowCredentials.s)
              ELSE h5
  IN  [response |-> [obj |-> "new", body |-> Null, headers |-> h6,
                     status |-> status, statusText |-> <<>>],
       lastIndex |-> allowed.lastIndex]

\* the response _preflight builds for a preflight request, and the lastIndex values after
preflightResponse(context, request, entries, lis) ==
  LET status == Coalesce(context.status, Num(StatusNoContent)).n
      origin == Get(request.headers, HeaderOrigin).s
      allowed == getAllowedOrigin(origin, context.matchOrigin, entries, lis)
      h1 == HSet(NoHeaders, AccessControlAllowOrigin, allowed.value)
      h2 == HSet(h1, AccessControlAllowHeaders,
                 Coalesce(context.allowHeaders,
                          Get(request.headers, AccessControlRequestHeaders)).s)
      h3 == HSet(h2, AccessControlAllowMethods,
                 Coalesce(context.allowMethods,
                          Get(request.headers, AccessControlRequestMethod)).s)
      h4 == HSet(h3, HeaderVary, Join(varyCandidates, Separator))
      h5 == IF isString(context.maxAge)
              THEN HSet(h4, AccessControlMaxAge, context.maxAge.s) ELSE h4
      h6 == IF isString(context.allowCredentials)
              THEN HSet(h5, AccessControlAllowCredentials, context.allowCredentials.s)
              ELSE h5
  IN  [response |-> [obj |-> "new", body |-> Null, headers |-> h6,
                     status |-> status, statusText |-> <<>>],
       lastIndex |-> allowed.lastIndex]

\* faulty variant: no short circuit, every OPTIONS request goes to next
preflightBranch_NoShortCircuit(request) ==
  IF request.method # MethodOptions THEN "tail" ELSE "await"

\* which branch of _preflight a request takes
preflightBranch(request) ==
  IF request.method # MethodOptions THEN "tail"
  ELSE IF ~isCORSPreflightRequest(request) THEN "await"
  ELSE "done"

\* _preflight up to its first suspension or, for a preflight request, to its return
preflightCall(request) ==
  /\ mw.kind = "preflight"
  /\ call.pc = "idle"
  /\ handled < MaxRequests
  /\ IF preflightBranch(request) = "done"
       THEN LET r == preflightResponse(mw.context, request, allowOrigins, lastIndex) IN
            /\ call' = settle([IdleCall EXCEPT !.request = request], r.response)
            /\ lastIndex' = r.lastIndex
       ELSE /\ call' = [IdleCall EXCEPT !.pc = preflightBranch(request),
                                        !.request = request, !.nextCalls = 1]
            /\ UNCHANGED lastIndex
  /\ UNCHANGED <<mw, allowOrigins, handled, calc, other, inner>>

\* faulty variant: Vary amended for every method
_preflight_AlwaysCopy(pc, response) ==
  fromResponse(response, InitHeaders(withVary(response, varyCandidates)))

\* _preflight from the moment next(request) resolves with `response`
_preflight(pc, response) ==
  IF pc = "tail" THEN response
  ELSE fromResponse(response, InitHeaders(withVary(response, varyCandidates)))

preflightResume(response) ==
  /\ mw.kind = "preflight"
  /\ call.pc \in {"tail", "await"}
  /\ call' = settle([call EXCEPT !.downstream = response,
                                 !.after = IF call.pc = "tail" THEN response
                                           ELSE downstreamAfter(response, varyCandidates)],
                     _preflight(call.pc, response))
  /\ UNCHANGED <<mw, allowOrigins, lastIndex, handled, calc, other, inner>>

NextPreflight ==
  \/ \E options \in Unbuilt(PreflightOptions) : preflight(options)
  \/ \E request \in Requests : preflightCall(request)
  \/ \E response \in PassedResponses : preflightResume(response)
  \/ \E err \in NextErrors : nextRejects(err)
  \/ Deliver

SpecPreflight == Init /\ [][NextPreflight]_vars

(***************************************************************************)
(* append applied on its own: to a Vary value, then to its own result      *)
(***************************************************************************)
\* Vary values a response may arrive with
AppendHeaders == {<<>>, <<"User-Agent">>, <<"x-test">> \o Separator \o <<"origin">>}

\* what the middleware passes as fields: Header.Origin in _cors, varyCandidates
\* in _preflight, and each candidate alone
AppendFieldLists ==
  {varyCandidates} \cup {<<varyCandidates[i]>> : i \in 1..Len(varyCandidates)}

InitAppend ==
  /\ mw = [kind |-> "none", options |-> NoOptions, context |-> NoContext, error |-> NoError]
  /\ allowOrigins = <<>>
  /\ lastIndex = <<>>
  /\ call = IdleCall
  /\ handled = 0
  /\ calc \in {[op |-> "append", args |-> <<h, <<>>>>, result |-> h, n |-> 0] : h \in AppendHeaders}
  /\ other = NoOther
  /\ inner = NoInner

\* finalVary = append(varyValue, fields), varyValue being the last result
appendCall(fields) ==
  /\ calc.op = "append"
  /\ calc.n < MaxAppends
  /\ calc' = [op |-> "append", args |-> <<calc.result, fields>>,
              result |-> append(calc.result, fields), n |-> calc.n + 1]
  /\ UNCHANGED <<mw, allowOrigins, lastIndex, call, handled, other, inner>>

NextAppend == \E fields \in AppendFieldLists : appendCall(fields)

SpecAppend == InitAppend /\ [][NextAppend]_vars

(***************************************************************************)
(* The helpers of utils.ts and deps.ts applied on their own                *)
(***************************************************************************)
\* requests by method and by each of the three headers: absent, empty, set
UtilRequests ==
  [method : {"GET", MethodOptions},
   headers : { HeadersOf(o \cup m \cup h) :
                 o \in Opt(HeaderOrigin, {<<>>, OriginA}),
                 m \in Opt(AccessControlRequestMethod, {<<>>, <<"POST">>}),
                 h \in Opt(AccessControlRequestHeaders, {<<>>, <<"content-type">>}) }]

\* isCORSRequest(request) and isCORSPreflightRequest(request)
checkRequest(request) ==
  /\ calc' = [op |-> "request", args |-> <<request>>,
              result |-> <<isCORSRequest(request), isCORSPreflightRequest(request)>>,
              n |-> 0]
  /\ UNCHANGED <<mw, allowOrigins, lastIndex, call, handled, other, inner>>

\* what a Headers object is built from: names in any case
HeaderInits ==
  { {},
    {<<"Vary", <<"a">>>>},
    {<<"vary", <<"b">>>>, <<"x-test", <<"t">>>>},
    {<<"X-Test", <<"u">>>>},
    {<<"x-other", <<"o">>>>, <<"Vary", <<>>>>} }

\* mergeHeaders(new Headers(l), new Headers(r)): the Headers returned, and what
\* the two Headers objects passed hold afterwards
mergeHeadersCall(l, r) ==
  /\ calc' = [op |-> "mergeHeaders", args |-> <<l, r>>,
              result |-> [merged |-> mergeHeaders(NewHeaders(l), NewHeaders(r)),
                          left |-> mergeHeadersLeft(NewHeaders(l), NewHeaders(r)),
                          right |-> NewHeaders(r)],
              n |-> 0]
  /\ UNCHANGED <<mw, allowOrigins, lastIndex, call, handled, other, inner>>

UtilResponses ==
  { [obj |-> "downstream", body |-> Null, headers |-> NoHeaders,
     status |-> StatusNoContent, statusText |-> <<>>],
    [obj |-> "downstream", body |-> Str(<<"test">>),
     headers |-> HeadersOf({<<"x-test", <<"test">>>>}),
     status |-> StatusOK, statusText |-> <<"OK">>] }

\* ResponseInit: each of headers, status and statusText given or not
UtilInits ==
  [headers : {Undefined,
              [t |-> "headers", h |-> NoHeaders],
              [t |-> "headers",
               h |-> HeadersOf({<<"content-type", <<"text/plain">>>>,
                                <<"x-test2", <<"test">>>>})]},
   status : {Undefined, Num(StatusOK), Num(404)},
   statusText : {Undefined, Str(<<>>), Str(<<"Created">>)}]

\* fromResponse(response, init)
fromResponseCall(response, init) ==
  /\ ResponseError(fromResponse(response, init)) = NoError
  /\ calc' = [op |-> "fromResponse", args |-> <<response, init>>,
              result |-> fromResponse(response, init), n |-> 0]
  /\ UNCHANGED <<mw, allowOrigins, lastIndex, call, handled, other, inner>>

PathSegments == {Str(<<"a">>), Str(<<"0">>), Num(0), Num(1)}

PathLists == UNION {[1..n -> PathSegments] : n \in 0..MaxPaths}

\* stringifyInstancePath(...paths)
stringifyInstancePathCall(paths) ==
  /\ calc' = [op |-> "stringifyInstancePath", args |-> paths,
              result |-> stringifyInstancePath(paths), n |-> 0]
  /\ UNCHANGED <<mw, allowOrigins, lastIndex, call, handled, other, inner>>

NextUtils ==
  \/ \E request \in UtilRequests : checkRequest(request)
  \/ \E l \in HeaderInits, r \in HeaderInits : mergeHeadersCall(l, r)
  \/ \E response \in UtilResponses, init \in UtilInits : fromResponseCall(response, init)
  \/ \E paths \in PathLists : stringifyInstancePathCall(paths)

SpecUtils == Init /\ [][NextUtils]_vars

(***************************************************************************)
(* The caller keeps the array it passed as allowOrigins: the matcher holds *)
(* that array, not a copy                                                  *)
(***************************************************************************)
\* `allowOrigins.length = n` run by the caller after the middleware is built
truncateAllowOrigins(n) ==
  /\ mw.kind \in {"cors", "preflight"}
  /\ n < Len(allowOrigins)
  /\ allowOrigins' = SubSeq(allowOrigins, 1, n)
  /\ lastIndex' = SubSeq(lastIndex, 1, n)
  /\ UNCHANGED <<mw, call, handled, calc, other, inner>>

NextMutation ==
  \/ NextCors
  \/ NextPreflight
  \/ \E n \in 0..1 : truncateAllowOrigins(n)

SpecMutation == Init /\ [][NextMutation]_vars

(***************************************************************************)
(* Two invocations of one middleware in flight at once: the second runs    *)
(* the same code on the same context, array and RegExp objects             *)
(***************************************************************************)
\* allowOrigins is a list of a string and a pattern, or one global pattern
ConcurrentOptions ==
  { [NoOptions EXCEPT !.allowOrigins = o] : o \in AllowOriginsValues \ {Undefined, Str(Star)} }

\* GET and OPTIONS requests without Origin, with Origin, and full preflight requests
ConcurrentRequests ==
  { request \in Requests :
      /\ Get(request.headers, HeaderOrigin) \in {Null, Str(OriginA)}
      /\ Get(request.headers, AccessControlRequestMethod) \in {Null, Str(<<"POST">>)} }

ConcurrentResponses == {response \in PassedResponses : ~Has(response.headers, HeaderVary)}

\* the second invocation up to its first suspension or, for a preflight
\* request to the preflight middleware, to its return
otherCall(request) ==
  /\ mw.kind \in {"cors", "preflight"}
  /\ other.call.pc = "idle"
  /\ handled < MaxRequests
  /\ LET branch == IF mw.kind = "cors" THEN "await" ELSE preflightBranch(request) IN
       IF branch = "done"
         THEN LET r == preflightResponse(mw.context, request, allowOrigins, lastIndex) IN
              /\ other' = [call |-> settle([IdleCall EXCEPT !.request = request], r.response),
                           since |-> lastIndex]
              /\ lastIndex' = r.lastIndex
         ELSE /\ other' = [call |-> [IdleCall EXCEPT !.pc = branch, !.request = request,
                                                     !.nextCalls = 1],
                           since |-> lastIndex]
              /\ UNCHANGED lastIndex
  /\ UNCHANGED <<mw, allowOrigins, call, handled, calc, inner>>

\* the second invocation from the moment its next(request) resolves
otherResume(response) ==
  /\ mw.kind \in {"cors", "preflight"}
  /\ other.call.pc \in {"await", "tail"}
  /\ IF mw.kind = "cors"
       THEN LET r == _cors(mw.context, other.call.request, response, allowOrigins, lastIndex) IN
            /\ other' = [other EXCEPT
                           !.call = settle([@ EXCEPT !.downstream = response], r.response)]
            /\ lastIndex' = r.lastIndex
       ELSE /\ other' = [other EXCEPT
                           !.call = settle([@ EXCEPT !.downstream = response],
                                           _preflight(other.call.pc, response))]
            /\ UNCHANGED lastIndex
  /\ UNCHANGED <<mw, allowOrigins, call, handled, calc, inner>>

\* next(request) of the second invocation throws or rejects
otherRejects(err) ==
  /\ mw.kind \in {"cors", "preflight"}
  /\ other.call.pc \in {"await", "tail"}
  /\ other' = [other EXCEPT !.call = onReject(@, err)]
  /\ UNCHANGED <<mw, allowOrigins, lastIndex, call, handled, calc, inner>>

\* the caller of the second invocation receives the response, or the rejection
otherDeliver ==
  /\ other.call.pc \in {"done", "threw"}
  /\ other' = NoOther
  /\ handled' = handled + 1
  /\ UNCHANGED <<mw, allowOrigins, lastIndex, call, calc, inner>>

NextConcurrent ==
  \/ \E options \in Unbuilt(ConcurrentOptions) : cors(options)
  \/ \E options \in Unbuilt(ConcurrentOptions) : preflight(options)
  \/ \E request \in ConcurrentRequests : corsCall(request)
  \/ \E response \in ConcurrentResponses : corsResume(response)
  \/ \E request \in ConcurrentRequests : preflightCall(request)
  \/ \E response \in ConcurrentResponses : preflightResume(response)
  \/ \E err \in NextErrors : nextRejects(err)
  \/ Deliver
  \/ \E request \in ConcurrentRequests : otherCall(request)
  \/ \E response \in ConcurrentResponses : otherResume(response)
  \/ \E err \in NextErrors : otherRejects(err)
  \/ otherDeliver

SpecConcurrent == Init /\ [][NextConcurrent]_vars

(***************************************************************************)
(* cors wrapping preflight:                                                *)
(*   const p = preflight({ allowOrigins, allowCredentials, ... });         *)
(*   const c = cors({ allowOrigins, allowCredentials, ... });              *)
(*   c(request, (request) => p(request, app))                              *)
(* both matchers hold the same allowOrigins array                          *)
(***************************************************************************)
ComposedOptions ==
  { [cors |-> [NoOptions EXCEPT !.allowOrigins = o, !.allowCredentials = c,
                                !.exposeHeaders = e],
     preflight |-> [NoOptions EXCEPT !.allowOrigins = o, !.allowCredentials = c,
                                     !.status = st]] :
      o \in AllowOriginsValues, c \in AllowCredentialsValues,
      e \in {Undefined, Array(<< <<"x-test">>, <<"x-test2">> >>)}, st \in StatusValues }

\* preflight(options.preflight), then cors(options.cors)
compose(options) ==
  /\ mw.kind = "none"
  /\ IF ~preflightValid(options.preflight)
       THEN /\ mw' = [kind |-> "failed", options |-> options.preflight, context |-> NoContext,
                      error |-> preflightError(options.preflight)]
            /\ UNCHANGED <<allowOrigins, lastIndex, inner>>
     ELSE IF ~corsValid(options.cors)
       THEN /\ mw' = [kind |-> "failed", options |-> options.cors, context |-> NoContext,
                      error |-> corsError(options.cors)]
            /\ UNCHANGED <<allowOrigins, lastIndex, inner>>
     ELSE /\ inner' = [NoInner EXCEPT !.kind = "preflight", !.options = options.preflight,
                                      !.context = preflightContext(options.preflight)]
          /\ mw' = [kind |-> "cors", options |-> options.cors,
                    context |-> corsContext(options.cors), error |-> NoError]
          /\ allowOrigins' = OriginEntries(options.cors.allowOrigins)
          /\ lastIndex' = [i \in 1..Len(OriginEntries(options.cors.allowOrigins)) |-> 0]
  /\ UNCHANGED <<call, handled, calc, other>>

\* faulty variant: the inner middleware passes every request to the application
composedCall_ReachesApp(request) ==
  /\ mw.kind = "cors" /\ inner.kind = "preflight"
  /\ call.pc = "idle"
  /\ handled < MaxRequests
  /\ call' = [IdleCall EXCEPT !.pc = "await", !.request = request, !.nextCalls = 1]
  /\ inner' = [inner EXCEPT !.pc = "tail", !.appCalls = 1, !.since = lastIndex]
  /\ UNCHANGED <<mw, allowOrigins, lastIndex, handled, calc, other>>

\* _cors up to `await next(request)`, and the _preflight that next runs, up to
\* its own next(request) or, for a preflight request, to its return
composedCall(request) ==
  /\ mw.kind = "cors" /\ inner.kind = "preflight"
  /\ call.pc = "idle"
  /\ handled < MaxRequests
  /\ LET waiting == [IdleCall EXCEPT !.pc = "await", !.request = request, !.nextCalls = 1]
         branch == preflightBranch(request)
         r == preflightResponse(inner.context, request, allowOrigins, lastIndex)
     IN  IF branch # "done"
           THEN /\ call' = waiting
                /\ inner' = [inner EXCEPT !.pc = branch, !.appCalls = 1, !.since = lastIndex]
                /\ UNCHANGED lastIndex
         ELSE IF ResponseError(r.response) # NoError
           THEN /\ call' = onReject(waiting, ResponseError(r.response))
                /\ inner' = [inner EXCEPT !.pc = "threw", !.since = lastIndex]
                /\ lastIndex' = r.lastIndex
         ELSE /\ call' = waiting
              /\ inner' = [inner EXCEPT !.pc = "done", !.result = r.response,
                                        !.since = lastIndex]
              /\ lastIndex' = r.lastIndex
  /\ UNCHANGED <<mw, allowOrigins, handled, calc, other>>

\* the application handler answers: _preflight returns, or rejects with what
\* the Response constructor throws
appResume(response) ==
  /\ mw.kind = "cors" /\ inner.kind = "preflight"
  /\ call.pc = "await" /\ inner.pc \in {"tail", "await"}
  /\ LET p == _preflight(inner.pc, response) IN
       IF ResponseError(p) # NoError
         THEN /\ call' = onReject(call, ResponseError(p))
              /\ inner' = [inner EXCEPT !.pc = "threw"]
         ELSE /\ inner' = [inner EXCEPT !.pc = "done", !.result = p]
              /\ UNCHANGED call
  /\ UNCHANGED <<mw, allowOrigins, lastIndex, handled, calc, other>>

\* the application handler throws or rejects: neither middleware catches
appRejects(err) ==
  /\ mw.kind = "cors" /\ inner.kind = "preflight"
  /\ call.pc = "await" /\ inner.pc \in {"tail", "await"}
  /\ call' = onReject(call, err)
  /\ inner' = [inner EXCEPT !.pc = "threw"]
  /\ UNCHANGED <<mw, allowOrigins, lastIndex, handled, calc, other>>

\* _cors from the moment the inner middleware has returned its response
composedResume ==
  /\ inner.kind = "preflight" /\ inner.pc = "done"
  /\ corsResume(inner.result)

\* the caller receives the response, or the rejection
composedDeliver ==
  /\ inner.kind = "preflight"
  /\ call.pc \in {"done", "threw"}
  /\ call' = IdleCall
  /\ inner' = [inner EXCEPT !.pc = "idle", !.appCalls = 0, !.result = NoResponse,
                            !.since = <<>>]
  /\ handled' = handled + 1
  /\ UNCHANGED <<mw, allowOrigins, lastIndex, calc, other>>

NextComposed ==
  \/ \E options \in Unbuilt(ComposedOptions) : compose(options)
  \/ \E request \in Requests : composedCall(request)
  \/ \E response \in PassedResponses : appResume(response)
  \/ \E err \in NextErrors : appRejects(err)
  \/ composedResume
  \/ composedDeliver

SpecComposed == Init /\ [][NextComposed]_vars

Next == NextCors \/ NextPreflight

Spec == Init /\ [][Next]_vars

(***************************************************************************)
(* Properties                                                              *)
(***************************************************************************)
Done == call.pc = "done"
CorsDone == mw.kind = "cors" /\ Done
PreflightDone == mw.kind = "preflight" /\ Done

RequestHas(name) == name \in DOMAIN call.request.headers
DownstreamHas(name) == name \in DOMAIN call.downstream.headers
ResultHas(name) == name \in DOMAIN call.result.headers

\* a CORS request carries Origin; a preflight request is an OPTIONS CORS request
\* that carries both Access-Control-Request-Method and Access-Control-Request-Headers
CORSRequest == RequestHas("origin")
FullPreflight ==
  /\ call.request.method = "OPTIONS"
  /\ {"origin", "access-control-request-method", "access-control-request-headers"}
       \subseteq DOMAIN call.request.headers

\* names (one atom each) written one after the other with ", " between them
Listed(names) ==
  [i \in 1..(IF names = <<>> THEN 0 ELSE 3 * Len(names) - 2) |->
     IF i % 3 = 1 THEN names[(i + 2) \div 3][1] ELSE IF i % 3 = 2 THEN "," ELSE " "]

\* the field names a Vary value lists, lower-cased
VaryMembers(value) == {toLowerCase(<<value[i]>>) : i \in {j \in 1..Len(value) : value[j] \notin {",", " "}}}

\* C1: the preflight middleware calls next zero times for a full preflight
\* request and exactly once for every other request; while it waits for next it
\* has called it once and the request is not a full preflight request.
C1_NextCalledZeroOrOnce ==
  mw.kind = "preflight" =>
    /\ Done => call.nextCalls = (IF FullPreflight THEN 0 ELSE 1)
    /\ call.pc \in {"await", "tail"} => call.nextCalls = 1 /\ ~FullPreflight

C1_Witness ==
  PreflightDone /\ FullPreflight /\ call.nextCalls = 0 /\ call.downstream = NoResponse

\* C2: for a CORS request, each of Access-Control-Allow-Origin,
\* Access-Control-Allow-Credentials and Access-Control-Expose-Headers that the
\* downstream response carries reaches the cors response with the downstream
\* value, the empty string included.
C2_DownstreamWins ==
  CorsDone /\ CORSRequest =>
    \A name \in {"access-control-allow-origin", "access-control-allow-credentials",
                 "access-control-expose-headers"} :
      DownstreamHas(name) =>
        ResultHas(name) /\ call.result.headers[name] = call.downstream.headers[name]

C2_Witness ==
  /\ CorsDone /\ CORSRequest
  /\ mw.options.allowOrigins = Undefined
  /\ mw.options.allowCredentials = Bool(TRUE)
  /\ DownstreamHas("access-control-allow-origin")
  /\ DownstreamHas("access-control-allow-credentials")
  /\ call.result.headers["access-control-allow-origin"] = <<>>
  /\ call.result.headers["access-control-allow-credentials"] = <<"false">>

\* an allowOrigins entry matches an origin: a string when equal to it, the
\* pattern /^source/ when the origin starts with source
EntryMatches(entry, origin) ==
  IF entry.re THEN IsPrefix(entry.source, origin) ELSE origin = entry.source

ExpectedAllowOrigin(option, origin) ==
  IF option.t # "array" THEN <<"*">>
  ELSE IF \E i \in 1..Len(option.list) : EntryMatches(option.list[i], origin)
    THEN origin
    ELSE <<>>

\* C3: for a CORS request whose downstream response sets no
\* Access-Control-Allow-Origin, the cors response carries the header: "*" when
\* allowOrigins is "*" or omitted, the Origin value when an entry matches it,
\* the empty string when none does.
C3_AllowOriginValue ==
  CorsDone /\ CORSRequest /\ ~DownstreamHas("access-control-allow-origin") =>
    /\ ResultHas("access-control-allow-origin")
    /\ call.result.headers["access-control-allow-origin"] =
         ExpectedAllowOrigin(mw.options.allowOrigins, call.request.headers["origin"])

\* the downstream Vary value, "" when the downstream response has none
DownstreamVaryValue ==
  IF DownstreamHas("vary") THEN call.downstream.headers["vary"] ELSE <<>>

\* value with the field name appended after ", " (alone when value is empty)
WithAppended(value, name) ==
  IF value = <<>> THEN <<name>> ELSE value \o <<",", " ", name>>

\* the headers of the result are those of the downstream response, Vary apart
OnlyVaryChanged ==
  /\ DOMAIN call.result.headers = DOMAIN call.downstream.headers \cup {"vary"}
  /\ \A name \in DOMAIN call.downstream.headers \ {"vary"} :
       call.result.headers[name] = call.downstream.headers[name]

\* C4 as stated: for a request without Origin the cors response has the
\* downstream headers with only Vary changed, and Vary is the downstream Vary
\* with origin appended.
C4_OriginAlwaysAppended ==
  CorsDone /\ ~CORSRequest =>
    /\ OnlyVaryChanged
    /\ call.result.headers["vary"] = WithAppended(DownstreamVaryValue, "origin")

\* C4 amended: for a request without Origin the cors response has the
\* downstream headers with only Vary changed; Vary is the downstream Vary with
\* origin appended when the downstream Vary does not list origin, and the
\* downstream Vary unchanged when it does.
C4_OriginAppendedOnce ==
  CorsDone /\ ~CORSRequest =>
    /\ OnlyVaryChanged
    /\ call.result.headers["vary"] =
         IF <<"origin">> \in VaryMembers(DownstreamVaryValue)
           THEN DownstreamVaryValue
           ELSE WithAppended(DownstreamVaryValue, "origin")

C4_Witness ==
  /\ CorsDone /\ ~CORSRequest
  /\ DownstreamHas("x-test")
  /\ DownstreamHas("access-control-allow-origin")
  /\ DownstreamVaryValue = <<"User-Agent">>
  /\ call.result.headers["vary"] = <<"User-Agent", ",", " ", "origin">>

\* C5 as stated: with exposeHeaders configured and no downstream
\* Access-Control-Expose-Headers, the cors response carries the configured names
\* joined with ", " for a CORS request that is not a preflight request, and no
\* Access-Control-Expose-Headers for a preflight request.
C5_ExposeAnyList ==
  /\ CorsDone /\ CORSRequest
  /\ mw.options.exposeHeaders # Undefined
  /\ ~DownstreamHas("access-control-expose-headers")
  => IF FullPreflight
       THEN ~ResultHas("access-control-expose-headers")
       ELSE /\ ResultHas("access-control-expose-headers")
            /\ call.result.headers["access-control-expose-headers"] =
                 Listed(mw.options.exposeHeaders.list)

\* C5 amended: the same for a configured list that is not empty; with an empty
\* list the cors response carries no Access-Control-Expose-Headers at all.
C5_ExposeNonEmptyList ==
  /\ CorsDone /\ CORSRequest
  /\ mw.options.exposeHeaders # Undefined
  /\ ~DownstreamHas("access-control-expose-headers")
  => IF FullPreflight \/ mw.options.exposeHeaders.list = <<>>
       THEN ~ResultHas("access-control-expose-headers")
       ELSE /\ ResultHas("access-control-expose-headers")
            /\ call.result.headers["access-control-expose-headers"] =
                 Listed(mw.options.exposeHeaders.list)

\* a preflight request whose two indicating headers are empty, answered by cors
\* configured with exposeHeaders
C5_Witness ==
  /\ CorsDone /\ FullPreflight
  /\ call.request.headers["access-control-request-method"] = <<>>
  /\ call.request.headers["access-control-request-headers"] = <<>>
  /\ mw.options.exposeHeaders = Array(<< <<"x-test">>, <<"x-test2">> >>)
  /\ ~ResultHas("access-control-expose-headers")

\* C6: the response to a preflight request has Access-Control-Allow-Headers
\* equal to the configured allowHeaders joined with ", ", or to the request's
\* Access-Control-Request-Headers when allowHeaders is not configured, and
\* Access-Control-Allow-Methods likewise from allowMethods or the request's
\* Access-Control-Request-Method.
C6_AllowHeadersAndMethods ==
  PreflightDone /\ FullPreflight =>
    /\ ResultHas("access-control-allow-headers")
    /\ call.result.headers["access-control-allow-headers"] =
         IF mw.options.allowHeaders # Undefined
           THEN Listed(mw.options.allowHeaders.list)
           ELSE call.request.headers["access-control-request-headers"]
    /\ ResultHas("access-control-allow-methods")
    /\ call.result.headers["access-control-allow-methods"] =
         IF mw.options.allowMethods # Undefined
           THEN Listed(mw.options.allowMethods.list)
           ELSE call.request.headers["access-control-request-method"]

C6_Witness ==
  /\ PreflightDone /\ FullPreflight
  /\ mw.options.allowHeaders = Array(<< <<"x-test">>, <<"x-test2">> >>)
  /\ call.result.headers["access-control-allow-headers"] =
       <<"x-test", ",", " ", "x-test2">>
  /\ call.result.headers["access-control-allow-methods"] = <<"POST">>

\* C7: the response to a preflight request has no body, the configured status
\* (204 when none is configured) and the Vary value
\* "origin, access-control-request-method, access-control-request-headers".
C7_PreflightShape ==
  PreflightDone /\ FullPreflight =>
    /\ call.result.body = Null
    /\ call.result.status =
         (IF mw.options.status # Undefined THEN mw.options.status.n ELSE 204)
    /\ call.result.status \in {200, 204}
    /\ ResultHas("vary")
    /\ call.result.headers["vary"] =
         <<"origin", ",", " ", "access-control-request-method", ",", " ",
           "access-control-request-headers">>

C7_Witness ==
  /\ PreflightDone /\ FullPreflight
  /\ mw.options.status = Num(200)
  /\ call.result.status = 200
  /\ call.request.headers["origin"] = <<>>

\* the number a string of decimal digits denotes, -1 when it is not one
DigitValue(a) ==
  CASE a = "0" -> 0 [] a = "1" -> 1 [] a = "2" -> 2 [] a = "3" -> 3 [] a = "4" -> 4
    [] a = "5" -> 5 [] a = "6" -> 6 [] a = "7" -> 7 [] a = "8" -> 8 [] a = "9" -> 9
    [] OTHER -> -1

RECURSIVE DecimalValue(_)
DecimalValue(s) ==
  IF s = <<>> THEN -1
  ELSE IF DigitValue(s[Len(s)]) < 0 THEN -1
  ELSE IF Len(s) = 1 THEN DigitValue(s[1])
  ELSE IF DecimalValue(SubSeq(s, 1, Len(s) - 1)) < 0 THEN -1
  ELSE 10 * DecimalValue(SubSeq(s, 1, Len(s) - 1)) + DigitValue(s[Len(s)])

\* C8: the response to a preflight request carries Access-Control-Max-Age exactly
\* when maxAge is configured (0 included), with the decimal digits of maxAge and
\* no leading zero, and Access-Control-Allow-Credentials exactly when
\* allowCredentials is configured.
C8_MaxAgeAndCredentialsPresence ==
  PreflightDone /\ FullPreflight =>
    /\ ResultHas("access-control-max-age") <=> mw.options.maxAge # Undefined
    /\ ResultHas("access-control-max-age") =>
         LET value == call.result.headers["access-control-max-age"] IN
           /\ DecimalValue(value) = mw.options.maxAge.n
           /\ Len(value) > 1 => value[1] # "0"
    /\ ResultHas("access-control-allow-credentials")
         <=> mw.options.allowCredentials # Undefined

C8_Witness ==
  /\ PreflightDone /\ FullPreflight
  /\ mw.options.maxAge = Num(0)
  /\ mw.options.allowCredentials = Bool(TRUE)
  /\ call.result.headers["access-control-max-age"] = <<"0">>
  /\ ResultHas("access-control-allow-credentials")

\* the Access-Control-Allow-Credentials value in a response is the middleware's own
OwnCredentials ==
  /\ Done
  /\ ResultHas("access-control-allow-credentials")
  /\ \/ mw.kind = "preflight" /\ FullPreflight
     \/ mw.kind = "cors" /\ ~DownstreamHas("access-control-allow-credentials")

\* C9 as stated: for allowCredentials omitted, a boolean or "true", the
\* Access-Control-Allow-Credentials value cors and preflight compute is absent
\* or "true".
C9_CredentialsAnyBoolean ==
  /\ mw.kind \in {"cors", "preflight"} =>
       mw.context.allowCredentials \in {Undefined, Str(<<"true">>)}
  /\ OwnCredentials => call.result.headers["access-control-allow-credentials"] = <<"true">>

\* C9 amended: for allowCredentials omitted, true or "true" the value computed
\* is absent or "true"; for false the value computed and emitted is "false".
C9_CredentialsTrueOnly ==
  /\ mw.kind \in {"cors", "preflight"} =>
       mw.context.allowCredentials =
         (IF mw.options.allowCredentials = Undefined THEN Undefined
          ELSE IF mw.options.allowCredentials = Bool(FALSE) THEN Str(<<"false">>)
          ELSE Str(<<"true">>))
  /\ OwnCredentials =>
       /\ mw.options.allowCredentials # Undefined
       /\ call.result.headers["access-control-allow-credentials"] =
            (IF mw.options.allowCredentials = Bool(FALSE) THEN <<"false">> ELSE <<"true">>)

C9_Witness ==
  /\ OwnCredentials
  /\ mw.kind = "cors"
  /\ mw.options.allowCredentials = Str(<<"true">>)
  /\ call.result.headers["access-control-allow-credentials"] = <<"true">>

\* C10: for a request whose method is not OPTIONS the preflight middleware
\* returns the very response next produced: the same object, headers (Vary
\* included), status, status text and body.
C10_NonOptionsUntouched ==
  PreflightDone /\ call.request.method # "OPTIONS" =>
    /\ call.result = call.downstream
    /\ call.result.obj = "downstream"

C10_Witness ==
  /\ PreflightDone /\ call.request.method = "GET"
  /\ CORSRequest
  /\ RequestHas("access-control-request-method")
  /\ RequestHas("access-control-request-headers")
  /\ call.result.obj = "downstream"
  /\ call.result.headers = call.downstream.headers
  /\ ~ResultHas("vary")

\* the three request headers a CORS negotiation depends on, in the order of
\* varyCandidates
NegotiationFields == <<"origin", "access-control-request-method", "access-control-request-headers">>

\* an OPTIONS request that is not a preflight request, answered by preflight
OptionsPassed == PreflightDone /\ call.request.method = "OPTIONS" /\ ~FullPreflight

\* value with the field name appended unless value lists it already
WithMissing(value, name) ==
  IF <<name>> \in VaryMembers(value) THEN value ELSE WithAppended(value, name)

\* value with those of the three negotiation fields it does not list appended
WithMissingNegotiationFields(value) ==
  WithMissing(WithMissing(WithMissing(value, NegotiationFields[1]), NegotiationFields[2]),
              NegotiationFields[3])

\* C11 as stated: for every request the preflight middleware passes to next,
\* the Vary of the returned response lists origin, access-control-request-method
\* and access-control-request-headers.
C11_VaryOnEveryPassedRequest ==
  PreflightDone /\ ~FullPreflight =>
    /\ ResultHas("vary")
    /\ \A i \in 1..3 : <<NegotiationFields[i]>> \in VaryMembers(call.result.headers["vary"])

\* C11 amended: for every OPTIONS request that is not a preflight request the
\* Vary of the returned response lists the three fields; for a request of any
\* other method the returned Vary is the one next produced, none when next
\* produced none.
C11_VaryOnPassedOptions ==
  /\ OptionsPassed =>
       /\ ResultHas("vary")
       /\ \A i \in 1..3 : <<NegotiationFields[i]>> \in VaryMembers(call.result.headers["vary"])
  /\ PreflightDone /\ call.request.method # "OPTIONS" =>
       /\ ResultHas("vary") = DownstreamHas("vary")
       /\ ResultHas("vary") => call.result.headers["vary"] = call.downstream.headers["vary"]

C11_Witness ==
  /\ OptionsPassed
  /\ ~CORSRequest
  /\ ~DownstreamHas("vary")
  /\ call.result.headers["vary"] = Listed(<< <<"origin">>, <<"access-control-request-method">>,
                                            <<"access-control-request-headers">> >>)

\* C12 as stated: for an OPTIONS request that is not a preflight request the
\* response has the downstream status, status text, body and headers, Vary
\* apart, and Vary is the downstream Vary with the three fields appended in
\* the fixed order.
C12_ThreeAlwaysAppended ==
  OptionsPassed =>
    /\ OnlyVaryChanged
    /\ call.result.status = call.downstream.status
    /\ call.result.statusText = call.downstream.statusText
    /\ call.result.body = call.downstream.body
    /\ call.result.headers["vary"] =
         WithAppended(WithAppended(WithAppended(DownstreamVaryValue, NegotiationFields[1]),
                                   NegotiationFields[2]), NegotiationFields[3])

\* C12 amended: the same, Vary being the downstream Vary followed by those of
\* the three fields it does not list yet, in the fixed order, whichever of them
\* the request carried.
C12_MissingAppendedInOrder ==
  OptionsPassed =>
    /\ OnlyVaryChanged
    /\ call.result.status = call.downstream.status
    /\ call.result.statusText = call.downstream.statusText
    /\ call.result.body = call.downstream.body
    /\ call.result.headers["vary"] = WithMissingNegotiationFields(DownstreamVaryValue)

C12_Witness ==
  /\ OptionsPassed
  /\ CORSRequest
  /\ RequestHas("access-control-request-method")
  /\ ~RequestHas("access-control-request-headers")
  /\ call.downstream.status = 404
  /\ call.result.status = 404
  /\ DownstreamVaryValue = <<"User-Agent">>
  /\ call.result.headers["vary"] =
       <<"User-Agent", ",", " ", "origin", ",", " ", "access-control-request-method",
         ",", " ", "access-control-request-headers">>

\* how often a Vary value lists the field, whatever the case of its letters
Occurrences(value, name) ==
  Cardinality({i \in 1..Len(value) : LowerAtom(value[i]) = name})

\* the fields the middleware appends to the Vary of the response it is given:
\* origin in cors, the three negotiation fields in preflight for OPTIONS
AppendedFields ==
  IF mw.kind = "cors" THEN {"origin"}
  ELSE {NegotiationFields[i] : i \in 1..3}

VaryAmended == CorsDone \/ OptionsPassed

RECURSIVE WithEachMissing(_, _)
WithEachMissing(value, fields) ==
  IF fields = <<>> THEN value
  ELSE WithEachMissing(WithMissing(value, LowerAtom(Head(fields)[1])), Tail(fields))

Appended == calc.op = "append" /\ calc.n > 0

\* C14 as stated: append does not look for duplicates: the result is the
\* fields joined with ", " when the existing value is empty, and the existing
\* value, ", " and the joined fields otherwise.
C14_AppendKeepsDuplicates ==
  Appended =>
    calc.result = IF calc.args[1] = <<>> THEN Listed(calc.args[2])
                  ELSE calc.args[1] \o <<",", " ">> \o Listed(calc.args[2])

\* C14 amended: append leaves out the fields the existing value lists: the
\* result is the existing value followed by the fields it does not list, ", "
\* between members, and a field appended again and again is listed once.
C14_AppendSkipsListed ==
  Appended =>
    /\ calc.result = WithEachMissing(calc.args[1], calc.args[2])
    /\ \A i \in 1..Len(calc.args[2]) : Occurrences(calc.result, calc.args[2][i][1]) = 1

C14_Witness ==
  /\ Appended
  /\ calc.n = 2
  /\ calc.args = << <<"origin">>, << <<"origin">> >> >>
  /\ calc.result = <<"origin">>

Failed == mw.kind = "failed"

\* a token: not empty, token characters only
ValidToken(value) ==
  value # <<>> /\ \A i \in 1..Len(value) : value[i] \notin NonTokenAtoms

\* the entries of a list option, none when the option is omitted
Entries(option) == IF option = Undefined THEN <<>> ELSE option.list

SomeInvalid(option) == \E i \in 1..Len(Entries(option)) : ~ValidToken(Entries(option)[i])

\* position of the first entry that is not a token
FirstInvalid(option) ==
  CHOOSE i \in 1..Len(Entries(option)) :
    /\ ~ValidToken(Entries(option)[i])
    /\ \A j \in 1..(i - 1) : ValidToken(Entries(option)[j])

\* `<property>[<i>] is invalid <grammar> format. "<value>"` for the first invalid
\* entry, i counted from 0
TokenMessage(property, grammar, option) ==
  <<property, "[", Digit(FirstInvalid(option) - 1), "]", " is invalid ", grammar,
    " format. ", "\"">> \o Entries(option)[FirstInvalid(option)] \o <<"\"">>

\* C15: cors(options) fails, leaving no middleware to handle a request, exactly
\* when some exposeHeaders entry is not a token; the message then is
\* `exposeHeaders[<i>] is invalid <field-name> format. "<value>"` for the first
\* invalid entry.
C15_CorsFailsOnInvalidExpose ==
  mw.kind \in {"cors", "failed"} =>
    /\ Failed <=> SomeInvalid(mw.options.exposeHeaders)
    /\ Failed =>
         /\ mw.error.message =
              TokenMessage("exposeHeaders", "<field-name>", mw.options.exposeHeaders)
         /\ mw.context = NoContext
         /\ call = IdleCall /\ handled = 0

C15_Witness ==
  /\ Failed
  /\ mw.options.exposeHeaders = Array(<< <<"x-test">>, <<"<invalid:field-name>">>, <<>> >>)
  /\ mw.error.message =
       <<"exposeHeaders", "[", "1", "]", " is invalid ", "<field-name>", " format. ",
         "\"", "<invalid:field-name>", "\"">>

\* maxAge is given and is not a non-negative integer
InvalidMaxAge ==
  /\ mw.options.maxAge # Undefined
  /\ ~(mw.options.maxAge.k = "integer" /\ mw.options.maxAge.n >= 0)

\* C16: preflight(options) fails, leaving no middleware, exactly when maxAge is
\* given and is not a non-negative integer, or an allowHeaders entry or an
\* allowMethods entry is not a token; the error is that of the first failing
\* check in the order maxAge, allowHeaders, allowMethods.
C16_PreflightFailsInOrder ==
  mw.kind \in {"preflight", "failed"} =>
    /\ Failed <=> \/ InvalidMaxAge
                  \/ SomeInvalid(mw.options.allowHeaders)
                  \/ SomeInvalid(mw.options.allowMethods)
    /\ Failed =>
         /\ mw.context = NoContext
         /\ call = IdleCall /\ handled = 0
         /\ IF InvalidMaxAge
              THEN SubSeq(mw.error.message, 1, 2) = <<"maxAge", " must be non-negative integer. ">>
            ELSE IF SomeInvalid(mw.options.allowHeaders)
              THEN mw.error.message =
                     TokenMessage("allowHeaders", "<field-name>", mw.options.allowHeaders)
            ELSE mw.error.message =
                   TokenMessage("allowMethods", "<method>", mw.options.allowMethods)

\* maxAge: NaN together with an allowHeaders list whose second entry is invalid
C16_Witness ==
  /\ Failed
  /\ mw.options.maxAge = NaN
  /\ mw.options.allowHeaders = Array(<< <<"x-test">>, <<>>, <<"<invalid:field-name>">> >>)
  /\ mw.error.message = <<"maxAge", " must be non-negative integer. ", "NaN">>

\* the text of the maxAge values that are not non-negative integers
MaxAgeText ==
  IF mw.options.maxAge = NaN THEN <<"NaN">>
  ELSE IF mw.options.maxAge = Infinity THEN <<"Infinity">>
  ELSE IF mw.options.maxAge = Half(1) THEN <<"1", ".", "5">>
  ELSE <<"-", "1">>

\* the maxAge message holds the name of the option and the value given
MaxAgeMessageNamesValue ==
  Failed /\ InvalidMaxAge =>
    /\ Head(mw.error.message) = "maxAge"
    /\ SubSeq(mw.error.message, 3, Len(mw.error.message)) = MaxAgeText

\* C17 as stated: a construction failure for a list entry is a FormatError and
\* one for maxAge a RangeError, whose message holds the option name and value.
C17_TypedErrors ==
  /\ Failed => mw.error.name = (IF InvalidMaxAge THEN "RangeError" ELSE "FormatError")
  /\ MaxAgeMessageNamesValue

\* C17 amended: every construction failure is a plain Error, for a list entry
\* and for maxAge alike; the maxAge message holds the option name and value.
C17_PlainError ==
  /\ Failed => mw.error.name = "Error"
  /\ MaxAgeMessageNamesValue

C17_Witness ==
  /\ Failed
  /\ mw.options.maxAge = Half(1)
  /\ mw.error = [name |-> "Error",
                 message |-> <<"maxAge", " must be non-negative integer. ", "1", ".", "5">>]

Constructed == mw.kind \in {"cors", "preflight"}

\* next has thrown or rejected
NextFailed == call.rejection # NoError

\* the invocation has rejected
Threw == call.pc = "threw"

\* once next has failed the invocation has rejected with that very failure,
\* has called next once, holds no response and none from next
FailurePassedOn ==
  NextFailed =>
    /\ Threw
    /\ call.error = call.rejection
    /\ call.nextCalls = 1
    /\ call.result = NoResponse
    /\ call.downstream = NoResponse /\ call.after = NoResponse

\* the step in which next fails leaves the middleware and its patterns alone
FailureComputesNothing ==
  ~NextFailed /\ call'.rejection # NoError =>
    /\ call.pc \in {"await", "tail"}
    /\ lastIndex' = lastIndex
    /\ mw' = mw

\* C18: when next throws or rejects, cors and preflight reject with exactly
\* that failure: it is not caught or wrapped, next is not called again, there
\* is no response, and nothing is computed on the way.
C18_NextFailurePropagates == [](FailurePassedOn) /\ [][FailureComputesNothing]_vars

C18_Witness ==
  /\ mw.kind = "cors" /\ Threw
  /\ CORSRequest
  /\ call.rejection = [name |-> "TypeError", message |-> <<"boom">>]
  /\ call.error = [name |-> "TypeError", message |-> <<"boom">>]
  /\ call.nextCalls = 1

\* C19 as stated: a constructed middleware never rejects on its own account:
\* when the invocation has rejected, next had rejected, and with that failure.
C19_NoErrorOfItsOwn ==
  Constructed /\ Threw => NextFailed /\ call.error = call.rejection

\* the response object next returned is, when the middleware is through with
\* it, what it was when next returned it
DownstreamIntact == call.after = call.downstream

\* C20: cors and the OPTIONS branch of preflight leave the response object of
\* next as it was (headers, status, status text) and return a response object
\* of their own, the only one to hold the changed headers.
C20_DownstreamNotMutated ==
  /\ Constructed /\ call.pc \in {"done", "threw"} => DownstreamIntact
  /\ VaryAmended =>
       /\ call.result.obj = "new"
       /\ call.downstream.obj = "downstream"
       /\ call.after.status = call.downstream.status
       /\ call.after.statusText = call.downstream.statusText
       /\ call.after.headers = call.downstream.headers

C20_Witness ==
  /\ CorsDone /\ CORSRequest
  /\ ~DownstreamHas("vary")
  /\ "vary" \notin DOMAIN call.after.headers
  /\ "access-control-allow-origin" \notin DOMAIN call.after.headers
  /\ call.result.headers["vary"] = <<"origin">>
  /\ ResultHas("access-control-allow-origin")
  /\ call.after = call.downstream

\* C24: isCORSRequest holds exactly when the request has an Origin header,
\* whatever its value; isCORSPreflightRequest exactly when moreover the method
\* is OPTIONS and both Access-Control-Request-Method and
\* Access-Control-Request-Headers are there, empty or not; a preflight request
\* is a CORS request.
C24_RequestKinds ==
  calc.op = "request" =>
    LET request == calc.args[1]
        present(name) == name \in DOMAIN request.headers
    IN  /\ calc.result[1] <=> present("origin")
        /\ calc.result[2] <=>
             /\ present("origin")
             /\ request.method = "OPTIONS"
             /\ present("access-control-request-method")
             /\ present("access-control-request-headers")
        /\ calc.result[2] => calc.result[1]

C24_Witness ==
  /\ calc.op = "request"
  /\ calc.args[1].method = "OPTIONS"
  /\ calc.args[1].headers =
       HeadersOf({<<"origin", <<>>>>, <<"access-control-request-method", <<>>>>,
                  <<"access-control-request-headers", <<>>>>})
  /\ calc.result = <<TRUE, TRUE>>

\* the Headers object an init makes: every name lower-cased, with its value
HeldBy(init) ==
  [k \in {LowerAtom(p[1]) : p \in init} |-> (CHOOSE p \in init : LowerAtom(p[1]) = k)[2]]

\* C26: mergeHeaders returns a Headers object with every name of both, the
\* value of the second where both hold the name (whatever the case the name
\* was written in) and the value of the first elsewhere; the two objects
\* passed hold afterwards what they held before.
C26_MergeRightBiased ==
  calc.op = "mergeHeaders" =>
    LET base == HeldBy(calc.args[1])
        overrides == HeldBy(calc.args[2])
        merged == calc.result.merged
    IN  /\ DOMAIN merged = DOMAIN base \cup DOMAIN overrides
        /\ \A k \in DOMAIN overrides : merged[k] = overrides[k]
        /\ \A k \in DOMAIN base \ DOMAIN overrides : merged[k] = base[k]
        /\ \A p \in calc.args[1], q \in calc.args[2] :
             LowerAtom(p[1]) = LowerAtom(q[1]) => merged[LowerAtom(q[1])] = q[2]
        /\ calc.result.left = base
        /\ calc.result.right = overrides

C26_Witness ==
  /\ calc.op = "mergeHeaders"
  /\ calc.args = << {<<"Vary", <<"a">>>>}, {<<"vary", <<"b">>>>, <<"x-test", <<"t">>>>} >>
  /\ calc.result.merged = HeadersOf({<<"vary", <<"b">>>>, <<"x-test", <<"t">>>>})
  /\ calc.result.left = HeadersOf({<<"vary", <<"a">>>>})

\* C27: fromResponse returns a new response with the body of the response and,
\* for each of headers, status and statusText, the value of init when init
\* gives one and that of the response otherwise; headers given by init are the
\* headers of the result, none of the response's among them.
C27_FromResponseOverrides ==
  calc.op = "fromResponse" =>
    LET response == calc.args[1]
        init == calc.args[2]
        result == calc.result
    IN  /\ result.obj = "new"
        /\ result.body = response.body
        /\ result.status = (IF init.status = Undefined THEN response.status ELSE init.status.n)
        /\ result.statusText =
             (IF init.statusText = Undefined THEN response.statusText ELSE init.statusText.s)
        /\ result.headers = (IF init.headers = Undefined THEN response.headers ELSE init.headers.h)

C27_Witness ==
  /\ calc.op = "fromResponse"
  /\ calc.args[1].headers = HeadersOf({<<"x-test", <<"test">>>>})
  /\ calc.args[2].statusText = Str(<<>>)
  /\ calc.args[2].status = Undefined
  /\ DOMAIN calc.result.headers = {"content-type", "x-test2"}
  /\ calc.result.statusText = <<>>
  /\ calc.result.status = 200
  /\ calc.result.body = Str(<<"test">>)

\* a path written bare
Bare(path) == IF path.t = "string" THEN path.s ELSE <<Digit(path.n)>>

\* the paths after the first: "." before a string, "[" and "]" around a number
RECURSIVE Later(_)
Later(paths) ==
  IF paths = <<>> THEN <<>>
  ELSE (IF Head(paths).t = "string" THEN <<".">> \o Bare(Head(paths))
        ELSE <<"[">> \o Bare(Head(paths)) \o <<"]">>) \o Later(Tail(paths))

\* C28: stringifyInstancePath gives "" for no path, the first path bare, each
\* later string after "." and each later number between "[" and "]".
C28_InstancePath ==
  calc.op = "stringifyInstancePath" =>
    calc.result = IF calc.args = <<>> THEN <<>>
                  ELSE Bare(Head(calc.args)) \o Later(Tail(calc.args))

\* (0, "0", 0, "0") gives "0.0[0].0"
C28_Witness ==
  /\ calc.op = "stringifyInstancePath"
  /\ calc.args = <<Num(0), Str(<<"0">>), Num(0), Str(<<"0">>)>>
  /\ calc.result = <<"0", ".", "0", "[", "0", "]", ".", "0">>

\* C29: a list option given as the empty list counts as given in preflight and
\* as not given in cors: with allowHeaders [] (allowMethods []) the answer to a
\* preflight request carries an empty Access-Control-Allow-Headers
\* (Access-Control-Allow-Methods) and not the value the request asks for; with
\* exposeHeaders [] the cors response gets no Access-Control-Expose-Headers
\* of its own.
C29_EmptyListGivenOrNot ==
  /\ PreflightDone /\ FullPreflight =>
       /\ mw.options.allowHeaders = Array(<<>>) =>
            /\ ResultHas("access-control-allow-headers")
            /\ call.result.headers["access-control-allow-headers"] = <<>>
       /\ mw.options.allowMethods = Array(<<>>) =>
            /\ ResultHas("access-control-allow-methods")
            /\ call.result.headers["access-control-allow-methods"] = <<>>
  /\ CorsDone /\ mw.options.exposeHeaders = Array(<<>>)
       /\ ResultHas("access-control-expose-headers") =>
         /\ DownstreamHas("access-control-expose-headers")
         /\ call.result.headers["access-control-expose-headers"] =
              call.downstream.headers["access-control-expose-headers"]

C29_Witness ==
  /\ PreflightDone /\ FullPreflight
  /\ mw.options.allowMethods = Array(<<>>)
  /\ mw.options.allowHeaders = Undefined
  /\ call.request.headers["access-control-request-method"] = <<"POST">>
  /\ call.request.headers["access-control-request-headers"] = <<"content-type">>
  /\ call.result.headers["access-control-allow-methods"] = <<>>
  /\ call.result.headers["access-control-allow-headers"] = <<"content-type">>

\* C25: cors treats a preflight request like any other: it calls next once and
\* computes nothing before next has answered; its response has the status and
\* body of the downstream response, a Vary that lists origin and, for a CORS
\* request, Access-Control-Allow-Origin and, when allowCredentials is
\* configured, Access-Control-Allow-Credentials.
C25_CorsAlwaysCallsNext ==
  mw.kind = "cors" =>
    /\ call.pc = "await" =>
         call.nextCalls = 1 /\ call.result = NoResponse /\ call.downstream = NoResponse
    /\ Done =>
         /\ call.nextCalls = 1
         /\ call.result.status = call.downstream.status
         /\ call.result.body = call.downstream.body
         /\ <<"origin">> \in VaryMembers(call.result.headers["vary"])
         /\ CORSRequest =>
              /\ ResultHas("access-control-allow-origin")
              /\ mw.options.allowCredentials # Undefined =>
                   ResultHas("access-control-allow-credentials")

C25_Witness ==
  /\ CorsDone /\ FullPreflight
  /\ call.nextCalls = 1
  /\ mw.options.allowCredentials = Bool(TRUE)
  /\ call.downstream.body = Str(<<"test">>)
  /\ call.result.body = Str(<<"test">>)
  /\ call.result.status = 200
  /\ ~DownstreamHas("access-control-allow-origin")
  /\ ResultHas("access-control-allow-origin")
  /\ call.result.headers["access-control-allow-credentials"] = <<"true">>

\* the lastIndex values of an allowOrigins array no request has gone through
FreshIndex == [i \in DOMAIN lastIndex |-> 0]

\* C22: the response of a middleware is a function of its configuration, the
\* request and the downstream response: it is the response the same
\* invocation yields on a middleware that has handled no request before.
C22_NothingSurvives ==
  /\ CorsDone =>
       call.result =
         _cors(mw.context, call.request, call.downstream, allowOrigins, FreshIndex).response
  /\ PreflightDone /\ FullPreflight =>
       call.result =
         preflightResponse(mw.context, call.request, allowOrigins, FreshIndex).response

\* the allowOrigins entries as they were when the middleware was built
EntriesAtConstruction == OriginEntries(mw.options.allowOrigins)
NoStickyEntry == \A i \in DOMAIN EntriesAtConstruction : ~EntriesAtConstruction[i].global

\* C21: the responses of a middleware depend on the option values as they
\* were at construction only: each response is the one computed from the
\* allowOrigins entries given at construction, whatever the caller did to
\* the array since (patterns with a lastIndex of their own set aside).
C21_OptionsFrozen ==
  NoStickyEntry =>
    /\ CorsDone =>
         call.result =
           _cors(mw.context, call.request, call.downstream, EntriesAtConstruction,
                 [i \in DOMAIN EntriesAtConstruction |-> 0]).response
    /\ PreflightDone /\ FullPreflight =>
         call.result =
           preflightResponse(mw.context, call.request, EntriesAtConstruction,
                             [i \in DOMAIN EntriesAtConstruction |-> 0]).response

\* what the second invocation returns when nothing else runs between its
\* start and its return
Alone ==
  IF mw.kind = "cors"
    THEN _cors(mw.context, other.call.request, other.call.downstream, allowOrigins,
               other.since).response
  ELSE IF preflightBranch(other.call.request) = "done"
    THEN preflightResponse(mw.context, other.call.request, allowOrigins, other.since).response
  ELSE _preflight(preflightBranch(other.call.request), other.call.downstream)

\* C23: an invocation whose await on next is interleaved with another
\* invocation of the same middleware returns the response it returns alone.
C23_NoInterference ==
  other.call.pc = "done" => other.call.result = Alone

\* what the inner preflight middleware returns for the request when it is
\* called directly
PreflightAlone ==
  preflightResponse(inner.context, call.request, allowOrigins, inner.since).response

Composed == mw.kind = "cors" /\ inner.kind = "preflight"

\* C30: with cors wrapped around preflight, both built on the same
\* allowOrigins and allowCredentials, a full preflight request is never
\* passed to the application handler, and the response has the status and
\* the headers of the response of the preflight middleware alone: Vary is
\* the list of the three fields and Access-Control-Allow-Origin is the
\* value preflight computed.
C30_ComposedPreflight ==
  Composed /\ FullPreflight =>
    /\ inner.appCalls = 0
    /\ Done =>
         /\ call.result.status = PreflightAlone.status
         /\ call.result.headers = PreflightAlone.headers
         /\ call.result.headers["vary"] = Join(varyCandidates, Separator)
         /\ call.result.headers["access-control-allow-origin"] =
              getAllowedOrigin(call.request.headers["origin"], inner.context.matchOrigin,
                               allowOrigins, inner.since).value

C30_Witness ==
  /\ Composed /\ FullPreflight /\ Done
  /\ inner.appCalls = 0
  /\ mw.options.allowCredentials = Bool(TRUE)
  /\ mw.options.exposeHeaders # Undefined
  /\ \E i \in DOMAIN allowOrigins : allowOrigins[i].global
  /\ call.result.status = StatusNoContent
  /\ call.result.headers["access-control-allow-origin"] = OriginA
  /\ call.result.headers["access-control-allow-credentials"] = <<"true">>
  /\ call.result.headers["vary"] = Join(varyCandidates, Separator)

====
